---- MODULE Spec2Model ----
(***************************************************************************)
(* Model of the chronicle storage engine (src/src/storage.rs): an          *)
(* append-only log of length-prefixed frames, a sequential scanner, an     *)
(* aggregate index rebuilt by scanning, and a random-access loader.        *)
(*                                                                         *)
(* The log file is a sequence of bytes (naturals).  A frame is a 4-byte    *)
(* big-endian length N followed by N bytes of a serialized StoredEvent.    *)
(* The JSON text of a StoredEvent is abstracted to one byte per token:     *)
(* '{', one byte for each of the seven field values in serde's field       *)
(* order, '}'.  Field names and separators are dropped; the token classes  *)
(* (number, string, null) are kept so that deserialization can fail the    *)
(* ways serde_json fails: end of input, a syntax error, a type error.      *)
(***************************************************************************)
EXTENDS Integers, Sequences, FiniteSets, TLC

\* ------------------------------------------------------------------ bounds
MaxAppends == 3    \* append_event calls of the sequential caller
MaxConcAppends == 2 \* append_event calls that race a scanner
MaxTs == 1         \* wall-clock readings are drawn from 0..MaxTs
MaxFaults == 1     \* external truncations / raw writes in one behaviour
MaxCrashes == 1    \* append_event calls killed in mid-write
MaxMultiAppends == 3 \* append_event calls of two callers that do not wait
MaxReaderAppends == 2 \* append_event calls before interleaved reads

\* ------------------------------------------------------- program constants
PrefixLen == 4     \* let mut len_buf = [0; 4]
UsizeBytes == 8    \* json.len(): usize

\* ------------------------------------------------------------------- bytes
LBrace == 123
RBrace == 125
NullByte == 110
NumByte(n) == 48 + n
StrByte(s) == 97 + s
IsNum(b) == b \in 48..57
IsStr(b) == b \in 97..106
IsTok(b) == IsNum(b) \/ IsStr(b) \/ b = NullByte

\* ------------------------------------------------------------------ events
\* Option<u64>: None is the empty sequence, Some(a) the one-element sequence.
None == <<>>
Some(a) == <<a>>

\* serde_json::Value, three shapes of it.
JNull == <<"null", 0>>
JNum(v) == <<"num", v>>
JStr(v) == <<"str", v>>

\* struct Event.  Strings are drawn from a two-letter alphabet.
MkEvent(t, ns, sid, ver, agg, p) ==
    [event_type |-> t, namespace |-> ns, schema_id |-> sid,
     schema_version |-> ver, aggregate_id |-> agg, payload |-> p]

\* The events callers append: a schema-definition event without aggregate
\* (main.rs), and events of aggregates 0 and 1 that differ in every field.
Events ==
    { MkEvent(0, 0, 0, 1, None, JNull),
      MkEvent(1, 0, 1, 1, Some(0), JStr(1)),
      MkEvent(1, 1, 0, 2, Some(1), JNum(3)) }

AggIds == 0..2     \* aggregate ids callers ask for; 2 is never appended

\* struct StoredEvent { write_timestamp_ms, #[serde(flatten)] event }
MkStored(ts, e) == [write_timestamp_ms |-> ts, event |-> e]

\* ------------------------------------------------------------------- codec
ValByte(v) ==
    IF v[1] = "null" THEN NullByte
    ELSE IF v[1] = "num" THEN NumByte(v[2])
    ELSE StrByte(v[2])

ByteVal(b) ==
    IF b = NullByte THEN JNull
    ELSE IF IsNum(b) THEN JNum(b - 48)
    ELSE JStr(b - 97)

OptByte(o) == IF o = None THEN NullByte ELSE NumByte(o[1])

ByteOpt(b) == IF b = NullByte THEN None ELSE Some(b - 48)

\* A serializer that writes schema_id where namespace belongs and back.
ToVecSwapped(se) ==
    << LBrace,
       NumByte(se.write_timestamp_ms),
       StrByte(se.event.event_type),
       StrByte(se.event.schema_id),
       StrByte(se.event.namespace),
       NumByte(se.event.schema_version),
       OptByte(se.event.aggregate_id),
       ValByte(se.event.payload),
       RBrace >>

\* serde_json::to_vec(&stored_event): the flattened record, the store's
\* field first, then the event's fields in declaration order.
ToVec(se) ==
    << LBrace,
       NumByte(se.write_timestamp_ms),
       StrByte(se.event.event_type),
       StrByte(se.event.namespace),
       StrByte(se.event.schema_id),
       NumByte(se.event.schema_version),
       OptByte(se.event.aggregate_id),
       ValByte(se.event.payload),
       RBrace >>

DocLen == 9

\* Lexical / structural check of byte i of a document, as the JSON reader
\* meets it: the opening brace, seven value tokens, the closing brace.
\* write_timestamp_ms is a direct field, so its type is checked on the spot.
BadAt(b, i) ==
    IF i = 1 THEN b[i] # LBrace
    ELSE IF i = DocLen THEN b[i] # RBrace
    ELSE IF i = 2 THEN ~IsNum(b[i])
    ELSE ~IsTok(b[i])

\* The flattened Event is built from the buffered map once the map is read.
BadTypes(b) ==
    \/ ~IsStr(b[3]) \/ ~IsStr(b[4]) \/ ~IsStr(b[5])
    \/ ~IsNum(b[6])
    \/ ~(IsNum(b[7]) \/ b[7] = NullByte)

\* serde_json::from_slice::<StoredEvent>(&event_buf)
FromSlice(b) ==
    LET n == Len(b)
        m == IF n < DocLen THEN n ELSE DocLen
        bad == {i \in 1..m : BadAt(b, i)}
    IN  IF bad # {}
        THEN [kind |-> "Err",
              category |-> IF bad = {2} /\ IsTok(b[2]) THEN "Data" ELSE "Syntax"]
        ELSE IF n < DocLen THEN [kind |-> "Err", category |-> "Eof"]
        ELSE IF BadTypes(b) THEN [kind |-> "Err", category |-> "Data"]
        ELSE IF n > DocLen THEN [kind |-> "Err", category |-> "Syntax"]
        ELSE [kind |-> "Ok",
              value |-> MkStored(b[2] - 48,
                          MkEvent(b[3] - 97, b[4] - 97, b[5] - 97, b[6] - 48,
                                  ByteOpt(b[7]), ByteVal(b[8])))]

\* impl From<serde_json::Error> for io::Error, applied by `?` on line 36:
\* Category::Eof becomes ErrorKind::UnexpectedEof, Syntax and Data become
\* ErrorKind::InvalidData.
IoErrorKind(category) ==
    IF category = "Eof" THEN "UnexpectedEof" ELSE "InvalidData"

\* (json.len() as u32).to_be_bytes() and u32::from_be_bytes.  The four bytes
\* keep n modulo 2^32, which is n for every length the model can hold.
ToBeBytes(n) ==
    << (n \div 16777216) % 256, (n \div 65536) % 256, (n \div 256) % 256, n % 256 >>

FromBeBytes(b) == b[1] * 16777216 + b[2] * 65536 + b[3] * 256 + b[4]

\* The same conversions at their full width.  json.len() is a usize, 8 bytes
\* on the 64-bit targets; it is held here as its base-256 digits, the least
\* significant first, and a u32 as its 4 digits.
Lengths == [1..UsizeBytes -> {0, 1, 255}]

\* json.len() as u32: the low 32 bits are kept.
AsU32(d) == SubSeq(d, 1, PrefixLen)

\* len.to_be_bytes(): the most significant byte first.
U32ToBeBytes(u) == [i \in 1..PrefixLen |-> u[PrefixLen + 1 - i]]

\* u32::from_be_bytes(len_buf)
U32FromBeBytes(b) == [i \in 1..PrefixLen |-> b[PrefixLen + 1 - i]]

\* length as usize: the high bytes are zero.
AsUsize(u) == u \o [i \in 1..(UsizeBytes - PrefixLen) |-> 0]

\* file.read(buf) in place of read_exact: a short read leaves the rest of the
\* zeroed buffer as it was and reports success.
ReadExactZeroFill(f, pos, n) ==
    LET have == IF pos >= Len(f) THEN 0
                ELSE IF pos + n <= Len(f) THEN n ELSE Len(f) - pos
    IN  [kind |-> "Ok",
         bytes |-> SubSeq(f, pos + 1, pos + have) \o [i \in 1..(n - have) |-> 0],
         cursor |-> pos + have]

\* A read that, once it has filled a payload buffer, leaves the cursor where
\* the frame's length prefix began.
ReadExactRewind(f, pos, n) ==
    IF n = 0 THEN [kind |-> "Ok", bytes |-> <<>>, cursor |-> pos]
    ELSE IF pos + n <= Len(f)
    THEN [kind |-> "Ok", bytes |-> SubSeq(f, pos + 1, pos + n),
          cursor |-> IF n = PrefixLen THEN pos + n ELSE pos - PrefixLen]
    ELSE [kind |-> "UnexpectedEof", bytes |-> <<>>,
          cursor |-> IF pos < Len(f) THEN Len(f) ELSE pos]

\* file.read_exact(buf) with buf of n bytes at cursor pos of file f: all n
\* bytes or ErrorKind::UnexpectedEof.  An empty buffer is always filled.
ReadExact(f, pos, n) ==
    IF n = 0 THEN [kind |-> "Ok", bytes |-> <<>>, cursor |-> pos]
    ELSE IF pos + n <= Len(f)
    THEN [kind |-> "Ok", bytes |-> SubSeq(f, pos + 1, pos + n), cursor |-> pos + n]
    ELSE [kind |-> "UnexpectedEof", bytes |-> <<>>,
          cursor |-> IF pos < Len(f) THEN Len(f) ELSE pos]


\* A decode that does not seek: it reads at the cursor whatever offset is given.
ReadEventAtOffsetNoSeek(f, cur, offset) ==
    LET l == ReadExact(f, cur, PrefixLen)
        p == ReadExact(f, l.cursor, FromBeBytes(l.bytes))
        d == FromSlice(p.bytes)
    IN  IF l.kind # "Ok" THEN [kind |-> l.kind, cursor |-> l.cursor]
        ELSE IF p.kind # "Ok" THEN [kind |-> p.kind, cursor |-> p.cursor]
        ELSE IF d.kind # "Ok"
        THEN [kind |-> IoErrorKind(d.category), cursor |-> p.cursor]
        ELSE [kind |-> "Ok", offset |-> cur, event |-> d.value,
              cursor |-> p.cursor]

\* fn read_event_at_offset(file, offset) on the bytes f with the cursor at
\* cur: seek when an offset is given, read the prefix, read the payload,
\* deserialize.  Every failure is an io::Error of the given kind.
ReadEventAtOffset(f, cur, offset) ==
    LET start == IF offset = None THEN cur ELSE offset[1]
        l == ReadExact(f, start, PrefixLen)
        length == FromBeBytes(l.bytes)
        p == ReadExact(f, l.cursor, length)
        d == FromSlice(p.bytes)
    IN  IF l.kind # "Ok" THEN [kind |-> l.kind, cursor |-> l.cursor]
        ELSE IF p.kind # "Ok" THEN [kind |-> p.kind, cursor |-> p.cursor]
        ELSE IF d.kind # "Ok"
        THEN [kind |-> IoErrorKind(d.category), cursor |-> p.cursor]
        ELSE [kind |-> "Ok", offset |-> start, event |-> d.value,
              cursor |-> p.cursor]

\* A scanner without the UnexpectedEof arm: every error is returned.
IsCleanEofNever(kind) == FALSE

\* The match arm of scan_log_entries that ends the loop with Ok(()).
IsCleanEof(kind) == kind = "UnexpectedEof"

\* A collector that keeps its entries ordered by write_timestamp_ms.
DeliverByTimestamp(s, entry) ==
    LET k == Cardinality({i \in 1..Len(s) :
                 s[i].event.write_timestamp_ms <= entry.event.write_timestamp_ms})
    IN  SubSeq(s, 1, k) \o <<entry>> \o SubSeq(s, k + 1, Len(s))

\* The collecting closure of the scanner's callers: seen.push((offset, event)).
Deliver(s, entry) == Append(s, entry)

\* An index closure that files an event without aggregate id under id 0.
IndexPushSentinel(idx, offset, se) ==
    LET agg == se.event.aggregate_id
        k == IF agg = None THEN 0 ELSE agg[1]
        old == IF k \in DOMAIN idx THEN idx[k] ELSE <<>>
    IN  [a \in (DOMAIN idx) \cup {k} |->
            IF a = k THEN Append(old, offset) ELSE idx[a]]

\* The closure of rebuild_index: index.entry(id).or_default().push(offset)
\* for an event with an aggregate id, nothing otherwise.
IndexPush(idx, offset, se) ==
    LET agg == se.event.aggregate_id
    IN  IF agg = None THEN idx
        ELSE LET k == agg[1]
                 old == IF k \in DOMAIN idx THEN idx[k] ELSE <<>>
             IN  [a \in (DOMAIN idx) \cup {k} |->
                     IF a = k THEN Append(old, offset) ELSE idx[a]]

EmptyIndex == <<>>

\* A loader that ends its loop on UnexpectedEof the way the scanner does.
RECURSIVE LoadLoopCleanEof(_, _, _, _, _)
LoadLoopCleanEof(f, cur, offsets, i, results) ==
    IF i > Len(offsets) THEN [status |-> "Ok", kind |-> "Ok", events |-> results]
    ELSE LET r == ReadEventAtOffset(f, cur, Some(offsets[i]))
         IN  IF r.kind = "UnexpectedEof"
             THEN [status |-> "Ok", kind |-> "Ok", events |-> results]
             ELSE IF r.kind # "Ok"
             THEN [status |-> "Err", kind |-> r.kind, events |-> <<>>]
             ELSE LoadLoopCleanEof(f, r.cursor, offsets, i + 1,
                                   Append(results, r.event))

\* The for loop of load_aggregate over the index's list, from its i-th
\* offset on, with the file's cursor at cur; `?` returns the first error.
RECURSIVE LoadLoop(_, _, _, _, _)
LoadLoop(f, cur, offsets, i, results) ==
    IF i > Len(offsets) THEN [status |-> "Ok", kind |-> "Ok", events |-> results]
    ELSE LET r == ReadEventAtOffset(f, cur, Some(offsets[i]))
         IN  IF r.kind # "Ok"
             THEN [status |-> "Err", kind |-> r.kind, events |-> <<>>]
             ELSE LoadLoop(f, r.cursor, offsets, i + 1, Append(results, r.event))

\* An open for reading that creates the file it does not find.
OpenCreating(present) == TRUE

\* fn open_file_for_read(path) = File::open(path): whether it succeeds.  It
\* succeeds on a file that is there and creates none.
OpenForRead(present) == present

\* The loop of scan_log_entries run in one piece on file f from cursor cur:
\* the calls f(offset, event) it makes and how it returns.
RECURSIVE ScanLoop(_, _, _)
ScanLoop(f, cur, calls) ==
    LET r == ReadEventAtOffset(f, cur, None)
    IN  IF r.kind = "Ok"
        THEN ScanLoop(f, r.cursor,
                      Deliver(calls, [offset |-> r.offset, event |-> r.event,
                                      end |-> r.cursor]))
        ELSE IF IsCleanEof(r.kind)
        THEN [status |-> "Ok", kind |-> "none", calls |-> calls]
        ELSE [status |-> "Err", kind |-> r.kind, calls |-> calls]

\* pub fn scan_log_entries(path, f), run in one piece.
ScanLogEntriesFn(present, f) ==
    IF ~OpenForRead(present)
    THEN [status |-> "Err", kind |-> "NotFound", calls |-> <<>>]
    ELSE ScanLoop(f, 0, <<>>)

\* pub fn load_aggregate(path, aggregate_id, index): the file is opened
\* first, the index is consulted second.
LoadAggregateFn(present, f, aggregate_id, idx) ==
    IF ~OpenForRead(present) THEN [status |-> "Err", kind |-> "NotFound", events |-> <<>>]
    ELSE IF aggregate_id \notin DOMAIN idx
    THEN [status |-> "Ok", kind |-> "Ok", events |-> <<>>]
    ELSE LoadLoop(f, 0, idx[aggregate_id], 1, <<>>)

\* ------------------------------------------------------------------- state
\* Slots for append_event calls in flight.
Writers == {1, 2}

VARIABLES
    exists,     \* whether a file is at the path
    file,       \* its bytes
    apc,        \* per append_event call in flight: the line it has reached
    aOffset,    \* its `offset`
    aStored,    \* its `stored_event`
    aJson,      \* its `json`
    aStart,     \* file length when its prefix was written
    started,    \* number of append_event calls started
    appended,   \* the calls that returned Ok: event, stored event, offset
    aAlone,     \* whether no other call has been in flight during this one
    torn,       \* the frames that calls killed in mid-write left behind
    jsonLen,    \* json.len(), a usize, as its 8 bytes
    lenBytes,   \* (json.len() as u32).to_be_bytes()
    spc,        \* scan_log_entries: the read it is about to do
    smode,      \* which closure it runs: "scan" (collect) or "rebuild"
    cursor,     \* the read cursor of the scanner's file
    sOffset,    \* returned_offset of the frame being read
    sLength,    \* length of the frame being read
    seen,       \* the calls f(offset, event) made so far, with each frame's end
    building,   \* rebuild_index's `index` while the scan runs
    sStatus,    \* the scan's Result: "none", "Ok" or "Err"
    sKind,      \* the ErrorKind of an Err
    sBegin,     \* number of returned appends when the scan began
    index,      \* the AggregateIndex the caller holds
    indexSeen,  \* the frames the scan that built it delivered
    loaded,     \* the result of the latest load_aggregate
    decoded,    \* the result of the latest single decode
    faults      \* external truncations and raw writes so far

castVars == <<jsonLen, lenBytes>>
writerVars == <<apc, aOffset, aStored, aJson, aStart, started, appended,
                aAlone, torn, jsonLen, lenBytes>>
scanVars == <<spc, smode, cursor, sOffset, sLength, seen, building, sStatus,
              sKind, sBegin>>
indexVars == <<index, indexSeen>>
fileVars == <<exists, file>>
vars == <<exists, file, apc, aOffset, aStored, aJson, aStart, started, appended,
          aAlone, torn, jsonLen, lenBytes,
          spc, smode, cursor, sOffset, sLength, seen, building, sStatus,
          sKind, sBegin, index, indexSeen, loaded, decoded, faults>>

NoEvent == MkStored(0, MkEvent(0, 0, 0, 0, None, JNull))
NoLoad == [called |-> FALSE]
NoDecode == [called |-> FALSE]

\* The path may or may not hold a file at the start (tests create an empty
\* temporary file; main.rs starts from whatever is on disk).
NoLen == <<0, 0, 0, 0, 0, 0, 0, 0>>

\* Everything but the length under conversion.
InitLog ==
    /\ exists \in BOOLEAN
    /\ file = <<>>
    /\ apc = [w \in Writers |-> "idle"]
    /\ aOffset = [w \in Writers |-> 0]
    /\ aStored = [w \in Writers |-> NoEvent]
    /\ aJson = [w \in Writers |-> <<>>]
    /\ aStart = [w \in Writers |-> 0]
    /\ started = 0
    /\ appended = <<>>
    /\ aAlone = [w \in Writers |-> TRUE]
    /\ torn = <<>>
    /\ spc = "idle"
    /\ smode = "scan"
    /\ cursor = 0
    /\ sOffset = 0
    /\ sLength = 0
    /\ seen = <<>>
    /\ building = EmptyIndex
    /\ sStatus = "none"
    /\ sKind = "none"
    /\ sBegin = 0
    /\ index = EmptyIndex
    /\ indexSeen = <<>>
    /\ loaded = NoLoad
    /\ decoded = NoDecode
    /\ faults = 0

Init == InitLog /\ jsonLen = NoLen /\ lenBytes = <<>>


\* The caller runs one operation at a time.
Idle == (\A w \in Writers : apc[w] = "idle") /\ spc \in {"idle", "done"}

\* The caller keeps the result of its latest read only; the index it holds
\* stays until it is rebuilt.
DropScan ==
    /\ spc' = "idle"
    /\ smode' = "scan"
    /\ cursor' = 0
    /\ sOffset' = 0
    /\ sLength' = 0
    /\ seen' = <<>>
    /\ building' = EmptyIndex
    /\ sStatus' = "none"
    /\ sKind' = "none"
    /\ sBegin' = 0

DropReads == DropScan /\ loaded' = NoLoad /\ decoded' = NoDecode

\* ------------------------------------------------------------ append_event
\* An open that empties the file, as with truncate(true).
OpenTruncating(f) == <<>>

\* What the file holds once .create(true).append(true).open(path) has
\* opened it: what it held, nothing if it was not there.
OpenAppend(f) == f

\* OpenOptions::new().create(true).append(true).open(path)
AppendOpen(w) ==
    /\ apc[w] = "idle"
    /\ file' = OpenAppend(file)
    /\ \E e \in Events : aStored' = [aStored EXCEPT ![w] = MkStored(0, e)]
    /\ exists' = TRUE
    /\ started' = started + 1
    /\ apc' = [apc EXCEPT ![w] = "opened"]
    /\ LET others == {v \in Writers \ {w} : apc[v] \notin {"idle", "returned"}}
       IN  aAlone' = [v \in Writers |->
                        IF v = w THEN others = {}
                        ELSE IF v \in others THEN FALSE ELSE aAlone[v]]
    /\ UNCHANGED <<aOffset, aJson, aStart, appended, torn, castVars>>

\* A seek to the start of the file instead of its end.
SeekStart(f) == 0

\* let offset = file.seek(SeekFrom::End(0))?
SeekEnd(f) == Len(f)

AppendSeek(w) ==
    /\ apc[w] = "opened"
    /\ aOffset' = [aOffset EXCEPT ![w] = SeekEnd(file)]
    /\ apc' = [apc EXCEPT ![w] = "seeked"]
    /\ UNCHANGED <<fileVars, aStored, aJson, aStart, started, appended>>
    /\ UNCHANGED <<aAlone, torn, castVars>>
    /\ UNCHANGED <<scanVars, indexVars, loaded, decoded, faults>>

\* SystemTime::now(), StoredEvent { write_timestamp_ms, event }, to_vec.
\* The wall clock is read, not computed: any value, not necessarily above
\* the previous reading.
AppendStamp(w) ==
    /\ apc[w] = "seeked"
    /\ \E ts \in 0..MaxTs :
          LET se == MkStored(ts, aStored[w].event)
          IN  /\ aStored' = [aStored EXCEPT ![w] = se]
              /\ aJson' = [aJson EXCEPT ![w] = ToVec(se)]
    /\ apc' = [apc EXCEPT ![w] = "stamped"]
    /\ UNCHANGED <<fileVars, aOffset, aStart, started, appended>>
    /\ UNCHANGED <<aAlone, torn, castVars>>
    /\ UNCHANGED <<scanVars, indexVars, loaded, decoded, faults>>

\* file.write_all(&len.to_be_bytes()): the file is in append mode, the
\* bytes go to its end.
AppendWriteLen(w) ==
    /\ apc[w] = "stamped"
    /\ file' = file \o ToBeBytes(Len(aJson[w]))
    /\ aStart' = [aStart EXCEPT ![w] = Len(file)]
    /\ apc' = [apc EXCEPT ![w] = "wrotelen"]
    /\ UNCHANGED <<exists, aOffset, aStored, aJson, started, appended>>
    /\ UNCHANGED <<aAlone, torn, castVars>>
    /\ UNCHANGED <<scanVars, indexVars, loaded, decoded, faults>>

\* file.write_all(&json)
AppendWriteJson(w) ==
    /\ apc[w] = "wrotelen"
    /\ file' = file \o aJson[w]
    /\ apc' = [apc EXCEPT ![w] = "wrotejson"]
    /\ UNCHANGED <<exists, aOffset, aStored, aJson, aStart, started, appended>>
    /\ UNCHANGED <<aAlone, torn, castVars>>
    /\ UNCHANGED <<scanVars, indexVars, loaded, decoded, faults>>

\* file.flush()?; Ok(offset)
AppendReturn(w) ==
    /\ apc[w] = "wrotejson"
    /\ appended' = Append(appended,
                     [event |-> aStored[w].event, stored |-> aStored[w],
                      offset |-> aOffset[w], start |-> aStart[w],
                      len |-> PrefixLen + Len(aJson[w]),
                      alone |-> aAlone[w]])
    /\ apc' = [apc EXCEPT ![w] = "returned"]
    /\ UNCHANGED <<fileVars, aOffset, aStored, aJson, aStart, started>>
    /\ UNCHANGED <<aAlone, torn, castVars>>
    /\ UNCHANGED <<scanVars, indexVars, loaded, decoded, faults>>

\* The caller goes on with the returned offset ...
AppendDone(w) ==
    /\ apc[w] = "returned"
    /\ apc' = [apc EXCEPT ![w] = "idle"]
    /\ UNCHANGED <<fileVars, aOffset, aStored, aJson, aStart, started, appended>>
    /\ UNCHANGED <<aAlone, torn, castVars>>
    /\ UNCHANGED <<scanVars, indexVars, loaded, decoded, faults>>

\* ... or decodes the frame at it: read_event_at_offset(file, Some(offset)).
DecodeReturned(w) ==
    /\ apc[w] = "returned"
    /\ exists
    /\ decoded' = [called |-> TRUE, at |-> Len(appended),
                   res |-> ReadEventAtOffset(file, 0, Some(aOffset[w]))]
    /\ apc' = [apc EXCEPT ![w] = "idle"]
    /\ UNCHANGED <<fileVars, aOffset, aStored, aJson, aStart, started, appended>>
    /\ UNCHANGED <<aAlone, torn, castVars>>
    /\ UNCHANGED <<scanVars, indexVars, loaded, faults>>


\* -------------------------------------------- scan_log_entries, rebuild_index
\* open_file_for_read(path)?: no file, no scan.  mode names the closure:
\* "scan" collects what it is given, "rebuild" is rebuild_index's closure.
ScanOpen(mode) ==
    /\ spc \in {"idle", "done"}
    /\ smode' = mode
    /\ cursor' = 0
    /\ sOffset' = 0
    /\ sLength' = 0
    /\ seen' = <<>>
    /\ building' = EmptyIndex
    /\ sBegin' = Len(appended)
    /\ LET opened == OpenForRead(exists)
       IN  /\ exists' = (exists \/ opened)
           /\ IF opened
              THEN spc' = "len" /\ sStatus' = "none" /\ sKind' = "none"
              ELSE spc' = "done" /\ sStatus' = "Err" /\ sKind' = "NotFound"
    /\ UNCHANGED <<file, writerVars, indexVars, faults>>

\* How the loop of scan_log_entries leaves on an io::Error of the given
\* kind: break and Ok(()) on a clean end of file, Err(err) otherwise.
\* rebuild_index hands out its index only after Ok.
ScanEnd(kind) ==
    /\ spc' = "done"
    /\ IF IsCleanEof(kind)
       THEN /\ sStatus' = "Ok"
            /\ sKind' = "none"
            /\ IF smode = "rebuild"
               THEN index' = building /\ indexSeen' = seen
               ELSE UNCHANGED indexVars
       ELSE /\ sStatus' = "Err"
            /\ sKind' = kind
            /\ UNCHANGED indexVars

\* read_event_at_offset(&mut file, None), first half: stream_position and
\* read_exact of the length prefix.
ScanReadLen ==
    /\ spc = "len"
    /\ LET l == ReadExact(file, cursor, PrefixLen)
       IN  IF l.kind = "Ok"
           THEN /\ sOffset' = cursor
                /\ sLength' = FromBeBytes(l.bytes)
                /\ cursor' = l.cursor
                /\ spc' = "payload"
                /\ UNCHANGED <<sStatus, sKind, indexVars>>
           ELSE /\ ScanEnd(l.kind)
                /\ cursor' = l.cursor
                /\ UNCHANGED <<sOffset, sLength>>
    /\ UNCHANGED <<smode, seen, building, sBegin>>
    /\ UNCHANGED <<fileVars, writerVars, loaded, decoded, faults>>

\* Second half: read_exact of the payload, from_slice, and the call
\* f(result.offset, result.event) of the loop body.
ScanReadPayload ==
    /\ spc = "payload"
    /\ LET p == ReadExact(file, cursor, sLength)
           d == FromSlice(p.bytes)
       IN  /\ cursor' = p.cursor
           /\ IF p.kind # "Ok"
              THEN ScanEnd(p.kind) /\ UNCHANGED <<seen, building>>
              ELSE IF d.kind # "Ok"
              THEN ScanEnd(IoErrorKind(d.category)) /\ UNCHANGED <<seen, building>>
              ELSE /\ seen' = Deliver(seen, [offset |-> sOffset, event |-> d.value,
                                             end |-> p.cursor])
                   /\ building' = IF smode = "rebuild"
                                  THEN IndexPush(building, sOffset, d.value)
                                  ELSE building
                   /\ spc' = "len"
                   /\ UNCHANGED <<sStatus, sKind, indexVars>>
    /\ UNCHANGED <<smode, sOffset, sLength, sBegin>>
    /\ UNCHANGED <<fileVars, writerVars, loaded, decoded, faults>>

\* ---------------------------------------------------------- load_aggregate
LoadAggregate(aggregate_id) ==
    /\ loaded' = [called |-> TRUE, id |-> aggregate_id, idx |-> index,
                  res |-> LoadAggregateFn(exists, file, aggregate_id, index)]
    /\ exists' = (exists \/ OpenForRead(exists))
    /\ decoded' = NoDecode
    /\ DropScan
    /\ UNCHANGED <<file, writerVars, indexVars, faults>>

\* ------------------------------------------------- the world outside the code
\* file.set_len(n) by another program (tests::scan_stops_cleanly_on_truncated_entry).
Truncate(n) ==
    /\ exists
    /\ n < Len(file)
    /\ faults < MaxFaults
    /\ file' = SubSeq(file, 1, n)
    /\ faults' = faults + 1
    /\ DropReads
    /\ UNCHANGED <<exists, writerVars, indexVars>>

\* Bytes another program appends (tests::scan_log_entries_ignores_trailing_
\* partial_event writes a bare prefix): a prefix of 9999 without payload, a
\* frame of length 0, a frame holding the first two bytes of a document, a
\* frame holding a byte that is no JSON.
RawBlocks ==
    { ToBeBytes(9999),
      ToBeBytes(0),
      ToBeBytes(2) \o <<LBrace, NumByte(1)>>,
      ToBeBytes(1) \o <<RBrace>> }

ExternalWrite(block) ==
    /\ exists
    /\ faults < MaxFaults
    /\ file' = file \o block
    /\ faults' = faults + 1
    /\ DropReads
    /\ UNCHANGED <<exists, writerVars, indexVars>>

\* ---------------------------------------------------------- specifications
\* One caller, one operation at a time, nothing else touches the file.
SeqAppend ==
    /\ Idle
    /\ started < MaxAppends
    /\ AppendOpen(1)
    /\ DropReads
    /\ UNCHANGED <<indexVars, faults>>

SeqScan ==
    \E mode \in {"scan", "rebuild"} :
        Idle /\ ScanOpen(mode) /\ loaded' = NoLoad /\ decoded' = NoDecode

SeqLoad == \E a \in AggIds : Idle /\ LoadAggregate(a)

AppendStep ==
    \E w \in Writers :
        \/ AppendSeek(w)
        \/ AppendStamp(w)
        \/ AppendWriteLen(w)
        \/ AppendWriteJson(w)
        \/ AppendReturn(w)
        \/ AppendDone(w)
        \/ DecodeReturned(w)

Next ==
    \/ SeqAppend
    \/ AppendStep
    \/ SeqScan
    \/ ScanReadLen
    \/ ScanReadPayload
    \/ SeqLoad

Spec == Init /\ [][Next]_vars

\* The same caller, and another program that truncates the file or appends
\* raw bytes to it between the caller's operations.
Fault ==
    /\ Idle
    /\ \/ \E n \in 0..(Len(file) - 1) : Truncate(n)
       \/ \E block \in RawBlocks : ExternalWrite(block)

NextFault == Next \/ Fault

SpecFault == Init /\ [][NextFault]_vars

\* The same caller, whose process may be killed inside one of the two
\* write_all calls of an append: the bytes written so far stay in the file,
\* the call never returns, and the next process goes on with the same file.
\* Either part of the length prefix is written (1..3 bytes), or the prefix
\* and less than the whole payload.
AppendCrash(w) ==
    /\ Len(torn) < MaxCrashes
    /\ \/ /\ apc[w] = "stamped"
          /\ \E k \in 1..(PrefixLen - 1) :
                /\ file' = file \o SubSeq(ToBeBytes(Len(aJson[w])), 1, k)
                /\ torn' = Append(torn, [start |-> Len(file), have |-> k,
                                         need |-> PrefixLen + Len(aJson[w])])
       \/ /\ apc[w] = "wrotelen"
          /\ \E k \in 0..(Len(aJson[w]) - 1) :
                /\ file' = file \o SubSeq(aJson[w], 1, k)
                /\ torn' = Append(torn, [start |-> aStart[w],
                                         have |-> PrefixLen + k,
                                         need |-> PrefixLen + Len(aJson[w])])
    /\ apc' = [apc EXCEPT ![w] = "idle"]
    /\ UNCHANGED <<exists, aOffset, aStored, aJson, aStart, started, appended>>
    /\ UNCHANGED <<aAlone, castVars>>
    /\ UNCHANGED <<scanVars, indexVars, loaded, decoded, faults>>

Crash == \E w \in Writers : AppendCrash(w)

NextCrash == Next \/ Crash

SpecCrash == Init /\ [][NextCrash]_vars

\* Two callers of append_event on the same path that do not wait for each
\* other: each of the calls runs its lines in order, the lines of the two
\* interleave freely.
MultiAppend ==
    /\ started < MaxMultiAppends
    /\ \E w \in Writers : AppendOpen(w)
    /\ UNCHANGED <<scanVars, indexVars, loaded, decoded, faults>>

NextMulti == MultiAppend \/ AppendStep

SpecMulti == Init /\ [][NextMulti]_vars

\* A caller whose reads interleave: while a scan, a rebuild_index or a
\* read_events is under way, load_aggregate is called with the index held
\* at that moment.  Appends and the other program's writes happen between
\* the reads, not during them.
LoadDuringScan(aggregate_id) ==
    /\ spc \in {"len", "payload"}
    /\ \A w \in Writers : apc[w] = "idle"
    /\ loaded' = [called |-> TRUE, id |-> aggregate_id, idx |-> index,
                  res |-> LoadAggregateFn(exists, file, aggregate_id, index)]
    /\ exists' = (exists \/ OpenForRead(exists))
    /\ UNCHANGED <<file, writerVars, scanVars, indexVars, decoded, faults>>

ReadersAppend ==
    /\ Idle
    /\ started < MaxReaderAppends
    /\ AppendOpen(1)
    /\ DropReads
    /\ UNCHANGED <<indexVars, faults>>

\* read_events runs the loop of scan_log_entries and prints what it reads.
ReadersScan ==
    \E mode \in {"scan", "rebuild", "dump"} :
        Idle /\ ScanOpen(mode) /\ loaded' = NoLoad /\ decoded' = NoDecode

NextReaders ==
    \/ ReadersAppend
    \/ AppendStep
    \/ Fault
    \/ ReadersScan
    \/ ScanReadLen
    \/ ScanReadPayload
    \/ SeqLoad
    \/ \E a \in AggIds : LoadDuringScan(a)

SpecReaders == Init /\ [][NextReaders]_vars

\* The same, with a scan that keeps running: the loop of scan_log_entries
\* takes its next read whenever it has one to take, whatever loads are
\* called in between.
SpecReadersFair ==
    SpecReaders /\ WF_vars(ScanReadLen) /\ WF_vars(ScanReadPayload)

\* The length prefix on its own: a payload of any length a usize can hold
\* has been serialized, append_event computes the four bytes it writes in
\* front of it.
InitCast == InitLog /\ jsonLen \in Lengths /\ lenBytes = <<>>

\* let len = json.len() as u32; ... &len.to_be_bytes()
CastLen ==
    /\ lenBytes = <<>>
    /\ lenBytes' = U32ToBeBytes(AsU32(jsonLen))
    /\ UNCHANGED <<fileVars, apc, aOffset, aStored, aJson, aStart, started,
                   appended, aAlone, torn, jsonLen>>
    /\ UNCHANGED <<scanVars, indexVars, loaded, decoded, faults>>

NextCast == CastLen

SpecCast == InitCast /\ [][NextCast]_vars

\* One appender and one scanner that do not wait for each other.
ConcAppend ==
    /\ \A v \in Writers : apc[v] = "idle"
    /\ started < MaxConcAppends
    /\ AppendOpen(1)
    /\ UNCHANGED <<scanVars, indexVars, loaded, decoded, faults>>

ConcScan ==
    \E mode \in {"scan", "rebuild"} :
        ScanOpen(mode) /\ UNCHANGED <<loaded, decoded>>

NextConc ==
    \/ ConcAppend
    \/ AppendStep
    \/ ConcScan
    \/ ScanReadLen
    \/ ScanReadPayload

SpecConc == Init /\ [][NextConc]_vars


\* ------------------------------------------------------------------ claims
\* C1: once the events e1..en have been appended one after another to an
\* empty log, a scan succeeds and delivers exactly n entries, the i-th being
\* the StoredEvent written for ei, whatever the timestamps are.
C1_ScanOrderIsAppendOrder ==
    (spc = "done" /\ exists) =>
        /\ sStatus = "Ok"
        /\ Len(seen) = Len(appended)
        /\ \A i \in 1..Len(seen) :
              /\ seen[i].event = appended[i].stored
              /\ seen[i].event.event = appended[i].event

\* A scan of three frames whose timestamps are not in append order.
C1_Witness ==
    /\ spc = "done"
    /\ sStatus = "Ok"
    /\ Len(seen) = 3
    /\ seen[1].event.write_timestamp_ms > seen[2].event.write_timestamp_ms
    /\ seen[1].event.event # seen[3].event.event

\* C7: with one append in flight at a time, the offsets the calls returned
\* are strictly increasing in call order, and each is the length the file
\* had just before that call wrote, where its length prefix begins.
C7_OffsetsIncreaseAndPointAtFrames ==
    /\ \A i, j \in 1..Len(appended) :
          i < j => appended[i].offset < appended[j].offset
    /\ \A i \in 1..Len(appended) :
          /\ appended[i].offset = appended[i].start
          /\ SubSeq(file, appended[i].offset + 1, appended[i].offset + PrefixLen)
                = ToBeBytes(appended[i].len - PrefixLen)

\* Three appends have returned.
C7_Witness ==
    /\ Len(appended) = 3
    /\ appended[3].offset > appended[2].offset
    /\ appended[2].offset > 0


\* Where the scanner stood when it read its last frame: after the last frame
\* it delivered.
StopPos == IF seen = <<>> THEN 0 ELSE seen[Len(seen)].end

\* At offset o of f there is a whole length prefix, all the payload bytes it
\* declares, and the payload is no StoredEvent.
CompleteUnparsableAt(f, o) ==
    /\ o + PrefixLen <= Len(f)
    /\ LET n == FromBeBytes(SubSeq(f, o + 1, o + PrefixLen))
       IN  /\ o + PrefixLen + n <= Len(f)
           /\ FromSlice(SubSeq(f, o + PrefixLen + 1, o + PrefixLen + n)).kind = "Err"

\* C2: a scan that reaches a frame whose prefix and declared payload bytes
\* are all in the file, but whose payload does not deserialize, returns an
\* error, whatever makes the payload unparsable.
C2_CorruptEntryIsError ==
    (spc = "done" /\ exists /\ CompleteUnparsableAt(file, StopPos)) =>
        sStatus = "Err"

\* The frame the store writes for a stored event.
FrameOf(se) == ToBeBytes(Len(ToVec(se))) \o ToVec(se)

\* The frames of the first k returned appends, one after another.
RECURSIVE FramesOf(_)
FramesOf(k) ==
    IF k = 0 THEN <<>> ELSE FramesOf(k - 1) \o FrameOf(appended[k].stored)

\* Bytes that begin a frame and do not complete it: one to three bytes of a
\* prefix, or a prefix with fewer payload bytes than it declares.
IncompleteTail(t) ==
    /\ Len(t) >= 1
    /\ \/ Len(t) < PrefixLen
       \/ Len(t) - PrefixLen < FromBeBytes(SubSeq(t, 1, PrefixLen))

TailAfter(k) == SubSeq(file, Len(FramesOf(k)) + 1, Len(file))

\* The file is the first k appended frames followed by an incomplete tail.
FramesThenTail(k) ==
    /\ k <= Len(appended)
    /\ Len(file) > Len(FramesOf(k))
    /\ SubSeq(file, 1, Len(FramesOf(k))) = FramesOf(k)
    /\ IncompleteTail(TailAfter(k))

\* C3: on a log of k complete frames followed by an incomplete tail, a scan
\* returns Ok and delivers exactly those k frames, in order.
C3_IncompleteTailIsCleanEnd ==
    \A k \in 0..Len(appended) :
        (spc = "done" /\ exists /\ FramesThenTail(k)) =>
            /\ sStatus = "Ok"
            /\ Len(seen) = k
            /\ \A i \in 1..k :
                  /\ seen[i].event = appended[i].stored
                  /\ seen[i].offset = appended[i].offset

\* A scan has finished on a log of at least one frame followed by a prefix
\* and a part of its payload.
C3_Witness ==
    \E k \in 1..Len(appended) :
        /\ spc = "done"
        /\ FramesThenTail(k)
        /\ Len(TailAfter(k)) > PrefixLen
        /\ Len(seen) = k

\* C4: load_aggregate for an id the index does not hold returns an empty
\* sequence and no error, whether or not a file is at the path.
C4_AbsentIdLoadsEmpty ==
    (loaded.called /\ loaded.id \notin DOMAIN index) =>
        /\ loaded.res.status = "Ok"
        /\ loaded.res.events = <<>>


\* The returned appends of events of aggregate a, in append order.
AppendedWith(a) ==
    LET Test(h) == h.event.aggregate_id = Some(a)
    IN  SelectSeq(appended, Test)

OffsetsOfAgg(a) == [i \in 1..Len(AppendedWith(a)) |-> AppendedWith(a)[i].offset]

StoredOfAgg(a) == [i \in 1..Len(AppendedWith(a)) |-> AppendedWith(a)[i].stored]

AppendedIds ==
    {appended[i].event.aggregate_id[1] :
        i \in {j \in 1..Len(appended) : appended[j].event.aggregate_id # None}}

\* C5: after single-writer appends to an empty log, the index rebuild_index
\* returns has exactly the appended aggregate ids as keys, lists for each id
\* the offsets its appends returned, in append order and strictly increasing,
\* and holds no offset of an event without aggregate id; id 0 is a key of
\* its own.
C5_IndexGroupsOffsetsByAggregate ==
    (spc = "done" /\ smode = "rebuild" /\ sStatus = "Ok") =>
        /\ DOMAIN index = AppendedIds
        /\ \A a \in DOMAIN index :
              /\ index[a] = OffsetsOfAgg(a)
              /\ \A i, j \in 1..Len(index[a]) : i < j => index[a][i] < index[a][j]
        /\ \A i \in 1..Len(appended) :
              appended[i].event.aggregate_id = None =>
                  \A a \in DOMAIN index : \A j \in 1..Len(index[a]) :
                      index[a][j] # appended[i].offset

\* An index rebuilt from a log that holds an event without aggregate id at
\* offset 0 and two events of aggregate 0 after it.
C5_Witness ==
    /\ spc = "done" /\ smode = "rebuild" /\ sStatus = "Ok"
    /\ Len(appended) = 3
    /\ appended[1].event.aggregate_id = None
    /\ DOMAIN index = {0}
    /\ Len(index[0]) = 2

\* C6: load_aggregate with the index rebuilt from the current log returns,
\* for every id, the StoredEvents of that aggregate's appends in append order.
C6_LoadIsAggregateSubsequence ==
    (loaded.called /\ exists /\ Len(indexSeen) = Len(appended)) =>
        /\ loaded.res.status = "Ok"
        /\ loaded.res.events = StoredOfAgg(loaded.id)

\* A load of two events of one aggregate with another aggregate's event
\* between them and the later event carrying the smaller timestamp.
C6_Witness ==
    /\ loaded.called
    /\ Len(indexSeen) = 3
    /\ Len(appended) = 3
    /\ appended[2].event.aggregate_id # Some(loaded.id)
    /\ appended[2].event.aggregate_id # None
    /\ Len(loaded.res.events) = 2
    /\ loaded.res.events[1].write_timestamp_ms > loaded.res.events[2].write_timestamp_ms

\* C8: decoding at the offset an append returned yields a StoredEvent whose
\* six event fields are those of the appended event and whose
\* write_timestamp_ms is the clock value the store read, whatever the file
\* held before the append.
C8_RoundTrip ==
    decoded.called =>
        LET h == appended[decoded.at]
            r == decoded.res
        IN  /\ r.kind = "Ok"
            /\ r.offset = h.offset
            /\ r.event.event.event_type = h.event.event_type
            /\ r.event.event.namespace = h.event.namespace
            /\ r.event.event.schema_id = h.event.schema_id
            /\ r.event.event.schema_version = h.event.schema_version
            /\ r.event.event.aggregate_id = h.event.aggregate_id
            /\ r.event.event.payload = h.event.payload
            /\ r.event.write_timestamp_ms = h.stored.write_timestamp_ms

\* A decode of a frame appended behind a truncated frame, at an offset that
\* is no multiple of the frame size, with a timestamp other than 0.
C8_Witness ==
    /\ decoded.called
    /\ faults > 0
    /\ decoded.res.kind = "Ok"
    /\ decoded.res.offset % (PrefixLen + DocLen) # 0
    /\ decoded.res.event.write_timestamp_ms > 0
    /\ decoded.res.event.event.aggregate_id = Some(0)

\* The stored events of the frames written in full: the returned appends and
\* the append that has written its payload and not yet returned.
Written ==
    [i \in 1..Len(appended) |-> appended[i].stored]
        \o (IF apc[1] = "wrotejson" THEN <<aStored[1]>> ELSE <<>>)

\* C9: a scan of an existing log that runs while an append writes its prefix
\* and its payload in two steps never returns a corrupt-entry error and
\* never delivers anything but appended events: it returns Ok with the frames
\* written, in append order, and with at least those returned before it began.
C9_RacingScanIsCleanEnd ==
    /\ sStatus = "Err" => sKind = "NotFound"
    /\ Len(seen) <= Len(Written)
    /\ \A i \in 1..Len(seen) : seen[i].event = Written[i]
    /\ (spc = "done" /\ sStatus = "Ok") => Len(seen) >= sBegin

\* A scan that read the prefix of the frame being written, found no payload
\* and ended Ok with the frame before it.
C9_Witness ==
    /\ spc = "done"
    /\ sStatus = "Ok"
    /\ apc[1] = "wrotelen"
    /\ sOffset = aStart[1]
    /\ sLength = DocLen
    /\ Len(seen) >= 1

\* The index holds for the loaded id an offset whose frame, as the rebuild
\* scan read it, ended beyond the present end of the file.
IndexedFrameCut ==
    /\ loaded.id \in DOMAIN index
    /\ \E j \in 1..Len(index[loaded.id]) : \E i \in 1..Len(indexSeen) :
          /\ indexSeen[i].offset = index[loaded.id][j]
          /\ indexSeen[i].end > Len(file)

\* C10: when the log was truncated after the index was built, so that a frame
\* the index records for the id is no longer whole, load_aggregate returns an
\* error, not a shorter list.
C10_TruncatedIndexedFrameIsError ==
    (loaded.called /\ exists /\ IndexedFrameCut) => loaded.res.status = "Err"

\* A load of an aggregate with two indexed frames, the first still whole, the
\* second cut.
C10_Witness ==
    /\ loaded.called
    /\ IndexedFrameCut
    /\ Len(index[loaded.id]) = 2
    /\ index[loaded.id][2] + PrefixLen < Len(file)
    /\ loaded.res.status = "Err"
    /\ loaded.res.kind = "UnexpectedEof"

\* C11: a scan of a file that is there and holds no byte delivers no entry
\* and returns Ok, and rebuild_index on it hands out the empty index, also
\* when the caller held a non-empty index before.
C11_EmptyFileScansEmpty ==
    (spc = "done" /\ exists /\ file = <<>>) =>
        /\ sStatus = "Ok"
        /\ seen = <<>>
        /\ (smode = "rebuild" => index = EmptyIndex /\ indexSeen = <<>>)

\* rebuild_index has run on a log that was cut down to no byte.
C11_Witness ==
    /\ spc = "done"
    /\ smode = "rebuild"
    /\ exists
    /\ file = <<>>
    /\ Len(appended) >= 1
    /\ sStatus = "Ok"
    /\ index = EmptyIndex

\* C12: whatever appends returned and whatever appends were killed in
\* mid-write, every frame of a returned append lies within the file and a
\* frame left partly written is the last thing in the file: no byte of a
\* later frame follows it.
C12_OnlyLastFrameIsPartial ==
    /\ \A i \in 1..Len(appended) :
          appended[i].start + appended[i].len <= Len(file)
    /\ \A i \in 1..Len(torn) :
          torn[i].start + torn[i].have = Len(file)

\* C13: with one writer and nobody truncating the file, a finished scan has
\* delivered every event whose append returned, at the offset that append
\* returned, also when an earlier append was killed in mid-write.
C13_ReturnedEventsAreScanned ==
    (spc = "done" /\ exists) =>
        \A i \in 1..Len(appended) :
            \E j \in 1..Len(seen) :
                /\ seen[j].offset = appended[i].offset
                /\ seen[j].event = appended[i].stored

\* The StoredEvents of aggregate a among the first n appends that returned.
StoredOfAggUpTo(a, n) ==
    LET Test(h) == h.event.aggregate_id = Some(a)
        hs == SelectSeq(SubSeq(appended, 1, n), Test)
    IN  [i \in 1..Len(hs) |-> hs[i].stored]

\* C14: a step never shortens the file nor changes a byte it held, every
\* frame of a returned append keeps the bytes that were written for it, and
\* load_aggregate with an index built when the log held its first k frames
\* returns the events of the id among those k, whatever was appended since.
C14_AppendOnlyKeepsIndexValid ==
    /\ [][/\ Len(file') >= Len(file)
          /\ SubSeq(file', 1, Len(file)) = file]_vars
    /\ [](\A i \in 1..Len(appended) :
             /\ appended[i].offset + appended[i].len <= Len(file)
             /\ SubSeq(file, appended[i].offset + 1,
                       appended[i].offset + appended[i].len)
                   = ToBeBytes(Len(ToVec(appended[i].stored)))
                       \o ToVec(appended[i].stored))
    /\ []((loaded.called /\ exists) =>
             /\ Len(indexSeen) <= Len(appended)
             /\ loaded.res.status = "Ok"
             /\ loaded.res.events = StoredOfAggUpTo(loaded.id, Len(indexSeen)))

\* A load through an index that is two appends old, of the aggregate both
\* of those appends wrote to.
C14_Witness ==
    /\ loaded.called
    /\ Len(indexSeen) = 1
    /\ Len(appended) = 3
    /\ appended[2].event.aggregate_id = Some(loaded.id)
    /\ appended[3].event.aggregate_id = Some(loaded.id)
    /\ loaded.res.status = "Ok"
    /\ Len(loaded.res.events) = 1

\* The i-th call that returned shares its offset with another call, or its
\* offset is not where its prefix went, or the bytes at its offset are not
\* its frame.
Collides(i) ==
    \/ \E j \in 1..Len(appended) :
          j # i /\ appended[j].offset = appended[i].offset
    \/ appended[i].offset # appended[i].start
    \/ SubSeq(file, appended[i].offset + 1,
              appended[i].offset + appended[i].len)
          # ToBeBytes(Len(ToVec(appended[i].stored))) \o ToVec(appended[i].stored)

\* C15: with two callers that do not wait for each other, a returned offset
\* that is shared with another call or that is not the start of the call's
\* own frame belongs to a call during which the other call was in flight;
\* a call that ran with no other call in flight never has one.  That such
\* offsets do occur is the witness.
C15_CollisionsNeedTwoCallsInFlight ==
    \A i \in 1..Len(appended) : Collides(i) => ~appended[i].alone

\* Both calls returned offset 0 and their prefixes and payloads alternate
\* in the file.
C15_Witness ==
    /\ Len(appended) = 2
    /\ appended[1].offset = appended[2].offset
    /\ appended[1].start = 0
    /\ appended[2].start = PrefixLen
    /\ Len(file) = appended[1].len + appended[2].len

\* C16: a step of scan_log_entries, rebuild_index, read_events or
\* load_aggregate (a step that is neither an append's nor another program's)
\* leaves the file as it was, whether it goes on, ends cleanly or ends in an
\* error; and reads that interleave return what they return when each runs
\* in one piece on the file: the finished scan equals the scan run without
\* interruption, a load made in the middle of a scan equals the load run on
\* the file with the index it was given.
C16_ReadsLeaveFileAlone ==
    /\ [][UNCHANGED <<writerVars, faults>> => UNCHANGED fileVars]_vars
    /\ [](spc = "done" =>
             LET r == ScanLogEntriesFn(exists, file)
             IN  /\ sStatus = r.status
                 /\ sKind = r.kind
                 /\ seen = r.calls)
    /\ [](loaded.called =>
             loaded.res = LoadAggregateFn(exists, file, loaded.id, loaded.idx))

\* A scan that ended in an error on a complete frame, with a load, made
\* while that scan was under way, that returned an event.
C16_Witness ==
    /\ spc = "done"
    /\ sStatus = "Err"
    /\ sKind = "InvalidData"
    /\ Len(seen) >= 1
    /\ loaded.called
    /\ loaded.res.status = "Ok"
    /\ Len(loaded.res.events) >= 1

\* C17: where no file is at the path, a step of scan_log_entries or
\* rebuild_index ends the scan with the error NotFound, delivers nothing,
\* hands out no index and leaves the path without a file; a step of
\* append_event there creates the file, empty, and the first append that
\* returns has offset 0.
C17_MissingFileScanFailsAppendCreates ==
    /\ [][(~exists /\ UNCHANGED writerVars) =>
             /\ ~exists'
             /\ file' = file
             /\ spc' = "done"
             /\ sStatus' = "Err"
             /\ sKind' = "NotFound"
             /\ seen' = <<>>
             /\ UNCHANGED indexVars]_vars
    /\ [][(~exists /\ ~UNCHANGED writerVars) =>
             /\ exists'
             /\ file' = <<>>]_vars
    /\ [](Len(appended) >= 1 => exists /\ appended[1].offset = 0)

\* rebuild_index found no file and returned the error; after it an append
\* created the file and returned offset 0.
C17_Witness ==
    /\ spc = "done"
    /\ smode = "rebuild"
    /\ sStatus = "Err"
    /\ sKind = "NotFound"
    /\ exists
    /\ Len(appended) = 1
    /\ appended[1].offset = 0

\* C18: on a file nobody writes to during the scan, a scan under way ends;
\* every entry it delivers begins where the one before it ended (the first
\* at 0) and ends at least 4 bytes further, within the file; so it never
\* delivers more than file length / 4 entries.
C18_ScanTerminates ==
    /\ (spc \in {"len", "payload"}) ~> (spc = "done")
    /\ [](\A i \in 1..Len(seen) :
             /\ seen[i].offset = (IF i = 1 THEN 0 ELSE seen[i - 1].end)
             /\ seen[i].end >= seen[i].offset + PrefixLen
             /\ seen[i].end <= Len(file))
    /\ [](PrefixLen * Len(seen) <= Len(file))
    /\ [](cursor <= Len(file))

\* A scan that delivered two entries, stood at a frame holding no document
\* behind them, and ended.
C18_Witness ==
    /\ spc = "done"
    /\ Len(seen) = 2
    /\ cursor = seen[2].end + PrefixLen
    /\ cursor = Len(file)

\* C19: the value a reader takes from the four prefix bytes append_event
\* writes is the number of payload bytes that follow them, for a payload of
\* any length, those of 2^32 bytes and more included.
C19_PrefixIsPayloadLength ==
    lenBytes # <<>> => AsUsize(U32FromBeBytes(lenBytes)) = jsonLen

====
